---- MODULE Spec2Model ----
(***************************************************************************)
(* Model of the passwordgen Generator (package passwordgen): the fluent    *)
(* configuration methods, Generate, shuffle and randomElement.             *)
(*                                                                         *)
(* A Go string over the ASCII alphabets below is modelled as a sequence of *)
(* one-character strings; every character is a single byte and a single    *)
(* rune, so len(s), []rune(s) and string(runes) keep the element count.    *)
(***************************************************************************)
EXTENDS Integers, Sequences, FiniteSets, TLC

\* ---------------------------------------------------------------- bounds
\* largest N passed to RequireX / ExactX
MaxCount == 2
\* largest length passed to Generate
MaxLength == 2
\* lengths down to -MaxNegLength are passed to Generate (no call rejects them)
MaxNegLength == 1
\* randomElement(s) is explored for the MaxDraw first and the MaxDraw last
\* elements of s
MaxDraw == 1
\* largest number of Generate calls made on one configuration
MaxGenerate == 2

\* longest rune slice handed to shuffle on its own
MaxShuffle == 3

\* counts down to -MaxNegCount are passed to RequireX and ExactX (N is an
\* int and no call rejects it)
MaxNegCount == 1

Counts == 0..MaxCount
AnyCounts == (0 - MaxNegCount)..MaxCount
Lengths == (0 - MaxNegLength)..MaxLength

\* ------------------------------------------------------------- constants
LowerLetters ==
  << "a","b","c","d","e","f","g","h","i","j","k","l","m",
     "n","o","p","q","r","s","t","u","v","w","x","y","z" >>

UpperLetters ==
  << "A","B","C","D","E","F","G","H","I","J","K","L","M",
     "N","O","P","Q","R","S","T","U","V","W","X","Y","Z" >>

Digits ==
  << "0","1","2","3","4","5","6","7","8","9" >>

Symbols ==
  << "~","!","@","#","$","%","^","&","*","(",")","_","+","-","=","{","}","[","]" >>

LowerLettersNoAmbig ==
  << "a","b","c","d","e","f","g","h","j","k","m",
     "n","p","q","r","s","t","u","v","w","x","y","z" >>

UpperLettersNoAmbig ==
  << "A","B","C","D","E","F","G","H","J","K","M",
     "N","P","Q","R","S","T","U","V","W","X","Y","Z" >>

DigitsNoAmbig ==
  << "2","3","4","5","6","7","8","9" >>

SymbolsNoAmbig ==
  << "~","!","@","#","$","%","^","&","*","(",")","_","+","-","=","{","}","[","]" >>

ErrNil == "nil"

ErrExceedsTotalLength ==
  "the number of required elements exceeds requested password length"

ErrNoCharactersSpecified == "no characters specified in generator"

\* the error of rand.Reader when the platform entropy source fails
ErrRandReader == "rand.Reader read error"

\* ----------------------------------------------------------------- state
VARIABLES
  g,           \* the Generator struct
  pc,          \* the caller: "ready" to call, holding what Generate
               \* "returned", or "panicked" inside Generate
  generated,   \* number of Generate calls since the last configuration call
  length,      \* argument of the last Generate call
  pass,        \* string returned by the last Generate call
  err,         \* error returned by the last Generate call
  randFailed,  \* rand.Int returned an error during the last Generate call
  pool,        \* the fill pool (values) the last Generate call built, if any
  drew,        \* the last Generate call asked rand.Int for a number
  runePass,    \* the rune slice handed to shuffle when it is run on its own
  picks        \* the values of randIndex in that run, in order

vars ==
  << g, pc, generated, length, pass, err, randFailed, pool, drew,
     runePass, picks >>

\* no fill pool was built: bufferLen < length did not hold or was not reached
NotBuilt == [built |-> FALSE, values |-> << >>]

NewGenerator ==
  [ lowerLetters |-> LowerLetters,
    upperLetters |-> UpperLetters,
    digits       |-> Digits,
    symbols      |-> Symbols,
    withLower    |-> FALSE,
    withUpper    |-> FALSE,
    withDigits   |-> FALSE,
    withSymbols  |-> FALSE,
    requireLower   |-> 0,
    requireUpper   |-> 0,
    requireDigits  |-> 0,
    requireSymbols |-> 0 ]

\* ------------------------------------------------------ random primitives
\* rand.Int(rand.Reader, max): a value of [0, max) with a nil error, or a
\* nil *big.Int with the reader's error.
randInt(max) ==
  { [n |-> k, err |-> ErrNil] : k \in 0..(max - 1) }
  \cup { [n |-> -1, err |-> ErrRandReader] }

\* the values of [0, max) explored when an element of an alphabet is picked
explored(max) == { j \in 0..(max - 1) : j < MaxDraw \/ j >= max - MaxDraw }

randomElement(s) ==
  { IF r.err # ErrNil
      THEN [elm |-> "", err |-> r.err]
      ELSE [elm |-> s[r.n + 1], err |-> ErrNil]
    : r \in { x \in randInt(Len(s)) :
                x.err # ErrNil \/ x.n \in explored(Len(s)) } }

swap(vals, i, j) ==
  [k \in 1..Len(vals) |->
     IF k = i THEN vals[j] ELSE IF k = j THEN vals[i] ELSE vals[k]]

\* the loop of shuffle with len(vals) = n left; the error of rand.Int is
\* discarded and randIndex.Int64() on the nil *big.Int panics
\* results carry the values randIndex took, in order
\* shuffleLoop stopping at one element and picking below n-1
RECURSIVE shuffleLoopShort(_, _)
shuffleLoopShort(vals, n) ==
  IF n > 1
    THEN UNION { IF r.err # ErrNil
                   THEN { [vals |-> vals, panic |-> TRUE, picks |-> << >>] }
                   ELSE { [sh EXCEPT !.picks = << r.n >> \o @]
                          : sh \in shuffleLoopShort(swap(vals, n, r.n + 1),
                                                   n - 1) }
                 : r \in randInt(n - 1) }
    ELSE { [vals |-> vals, panic |-> FALSE, picks |-> << >>] }

RECURSIVE shuffleLoop(_, _)
shuffleLoop(vals, n) ==
  IF n > 0
    THEN UNION { IF r.err # ErrNil
                   THEN { [vals |-> vals, panic |-> TRUE, picks |-> << >>] }
                   ELSE { [sh EXCEPT !.picks = << r.n >> \o @]
                          : sh \in shuffleLoop(swap(vals, n, r.n + 1),
                                              n - 1) }
                 : r \in randInt(n) }
    ELSE { [vals |-> vals, panic |-> FALSE, picks |-> << >>] }

shuffle(vals) == shuffleLoop(vals, Len(vals))

\* ------------------------------------------------------------- Generate
\* guard with the two checks in the opposite order
guardSwapped(gen, len) ==
  IF gen.requireLower + gen.requireUpper + gen.requireDigits
       + gen.requireSymbols > len
    THEN ErrExceedsTotalLength
    ELSE IF ~gen.withLower /\ ~gen.withUpper /\ ~gen.withDigits
              /\ ~gen.withSymbols
           THEN ErrNoCharactersSpecified
           ELSE ErrNil

\* guard whose first check also passes a generator with a required count
guardRequired(gen, len) ==
  IF /\ ~gen.withLower /\ ~gen.withUpper /\ ~gen.withDigits
     /\ ~gen.withSymbols
     /\ gen.requireLower = 0 /\ gen.requireUpper = 0
     /\ gen.requireDigits = 0 /\ gen.requireSymbols = 0
    THEN ErrNoCharactersSpecified
    ELSE IF gen.requireLower + gen.requireUpper + gen.requireDigits
              + gen.requireSymbols > len
           THEN ErrExceedsTotalLength
           ELSE ErrNil

\* the two guards at the head of Generate, in the order of the code
guard(gen, len) ==
  IF ~gen.withLower /\ ~gen.withUpper /\ ~gen.withDigits /\ ~gen.withSymbols
    THEN ErrNoCharactersSpecified
    ELSE IF gen.requireLower + gen.requireUpper + gen.requireDigits
              + gen.requireSymbols > len
           THEN ErrExceedsTotalLength
           ELSE ErrNil

\* for i := 0; i < n; i++ { elm, err := randomElement(s); ... WriteString(elm) }
\* results: the buffer after the loop, or the error that made Generate return
RECURSIVE appendElements(_, _, _)
appendElements(buffer, s, n) ==
  IF n > 0
    THEN UNION { IF e.err # ErrNil
                   THEN { [buffer |-> << >>, err |-> e.err] }
                   ELSE appendElements(Append(buffer, e.elm), s, n - 1)
                 : e \in randomElement(s) }
    ELSE { [buffer |-> buffer, err |-> ErrNil] }

\* run step(buffer) on every result that is not an error
andThen(results, step(_)) ==
  UNION { IF r.err # ErrNil THEN { r } ELSE step(r.buffer) : r \in results }

\* seed drawing from the alphabets the generator is configured with
seedConfigured(gen) ==
  LET lower   == appendElements(<< >>, gen.lowerLetters, gen.requireLower)
      upper   == andThen(lower,
                   LAMBDA b : appendElements(b, gen.upperLetters,
                                             gen.requireUpper))
      digits  == andThen(upper,
                   LAMBDA b : appendElements(b, gen.digits, gen.requireDigits))
  IN  andThen(digits,
        LAMBDA b : appendElements(b, gen.symbols, gen.requireSymbols))

\* seed with the upper-case loop bounded by requireLower
seedWrongBound(gen) ==
  LET lower   == appendElements(<< >>, LowerLetters, gen.requireLower)
      upper   == andThen(lower,
                   LAMBDA b : appendElements(b, UpperLetters, gen.requireLower))
      digits  == andThen(upper,
                   LAMBDA b : appendElements(b, Digits, gen.requireDigits))
  IN  andThen(digits,
        LAMBDA b : appendElements(b, Symbols, gen.requireSymbols))

\* the four seeding loops: always the full alphabets
seed(gen) ==
  LET lower   == appendElements(<< >>, LowerLetters, gen.requireLower)
      upper   == andThen(lower,
                   LAMBDA b : appendElements(b, UpperLetters, gen.requireUpper))
      digits  == andThen(upper,
                   LAMBDA b : appendElements(b, Digits, gen.requireDigits))
  IN  andThen(digits,
        LAMBDA b : appendElements(b, Symbols, gen.requireSymbols))

\* values with the lower-case alphabet added for a required class as well
valuesRequired(gen) ==
  (IF gen.withLower \/ gen.requireLower > 0 THEN gen.lowerLetters ELSE << >>)
  \o (IF gen.withUpper THEN gen.upperLetters ELSE << >>)
  \o (IF gen.withDigits THEN gen.digits ELSE << >>)
  \o (IF gen.withSymbols THEN gen.symbols ELSE << >>)

\* values with the symbols added whatever withSymbols says
valuesSymbols(gen) ==
  (IF gen.withLower THEN gen.lowerLetters ELSE << >>)
  \o (IF gen.withUpper THEN gen.upperLetters ELSE << >>)
  \o (IF gen.withDigits THEN gen.digits ELSE << >>)
  \o gen.symbols

\* valuesBuilder: the generator's alphabets of the classes whose flag is set
values(gen) ==
  (IF gen.withLower THEN gen.lowerLetters ELSE << >>)
  \o (IF gen.withUpper THEN gen.upperLetters ELSE << >>)
  \o (IF gen.withDigits THEN gen.digits ELSE << >>)
  \o (IF gen.withSymbols THEN gen.symbols ELSE << >>)

\* fill with the loop running while i <= length-bufferLen
fillOneMore(gen, buffer, len) ==
  LET bufferLen == Len(buffer)
      built     == [built |-> TRUE, values |-> values(gen)]
  IN  IF bufferLen < len
        THEN IF Len(values(gen)) = 0
               THEN { [buffer |-> << >>, err |-> ErrNoCharactersSpecified,
                       pool |-> built] }
               ELSE { [buffer |-> r.buffer, err |-> r.err, pool |-> built]
                      : r \in appendElements(buffer, values(gen),
                                             len - bufferLen + 1) }
        ELSE { [buffer |-> buffer, err |-> ErrNil, pool |-> NotBuilt] }

\* bufferLen := buffer.Len(); if bufferLen < length { ... }
\* results carry the pool that was built
fill(gen, buffer, len) ==
  LET bufferLen == Len(buffer)
      built     == [built |-> TRUE, values |-> values(gen)]
  IN  IF bufferLen < len
        THEN IF Len(values(gen)) = 0
               THEN { [buffer |-> << >>, err |-> ErrNoCharactersSpecified,
                       pool |-> built] }
               ELSE { [buffer |-> r.buffer, err |-> r.err, pool |-> built]
                      : r \in appendElements(buffer, values(gen),
                                             len - bufferLen) }
        ELSE { [buffer |-> buffer, err |-> ErrNil, pool |-> NotBuilt] }

\* every result Generate(len) can have on generator gen
\* drew: every character of a buffer was drawn by one randomElement call,
\* a rand.Reader error needs a call, and shuffle draws once per rune
generate(gen, len) ==
  IF guard(gen, len) # ErrNil
    THEN { [pass |-> << >>, err |-> guard(gen, len), panic |-> FALSE,
            pool |-> NotBuilt, drew |-> FALSE] }
    ELSE UNION
      { IF s.err # ErrNil
          THEN { [pass |-> << >>, err |-> s.err, panic |-> FALSE,
                  pool |-> NotBuilt, drew |-> TRUE] }
          ELSE UNION
            { IF r.err # ErrNil
                THEN { [pass |-> << >>, err |-> r.err, panic |-> FALSE,
                        pool |-> r.pool,
                        drew |-> (Len(s.buffer) > 0
                                    \/ r.err = ErrRandReader)] }
                ELSE { IF sh.panic
                         THEN [pass |-> << >>, err |-> ErrNil, panic |-> TRUE,
                               pool |-> r.pool, drew |-> TRUE]
                         ELSE [pass |-> sh.vals, err |-> ErrNil,
                               panic |-> FALSE, pool |-> r.pool,
                               drew |-> Len(r.buffer) > 0]
                       : sh \in shuffle(r.buffer) }
              : r \in fill(gen, s.buffer, len) }
        : s \in seed(gen) }

\* ------------------------------------------------- configuration methods
\* the generator after each method, as the method's assignments leave it
callNoAmbiguousCharacters(gen) ==
  [gen EXCEPT !.lowerLetters = LowerLettersNoAmbig,
              !.upperLetters = UpperLettersNoAmbig,
              !.digits = DigitsNoAmbig,
              !.symbols = SymbolsNoAmbig]

callWithLower(gen) == [gen EXCEPT !.withLower = TRUE]

callWithUpper(gen) == [gen EXCEPT !.withUpper = TRUE]

callWithDigits(gen) == [gen EXCEPT !.withDigits = TRUE]

callWithSymbols(gen) == [gen EXCEPT !.withSymbols = TRUE]

callRequireLower(gen, N) ==
  [gen EXCEPT !.withLower = TRUE, !.requireLower = N]

callRequireUpper(gen, N) ==
  [gen EXCEPT !.withUpper = TRUE, !.requireUpper = N]

callRequireDigits(gen, N) ==
  [gen EXCEPT !.withDigits = TRUE, !.requireDigits = N]

callRequireSymbols(gen, N) ==
  [gen EXCEPT !.withSymbols = TRUE, !.requireSymbols = N]

\* ExactLower leaving withLower as it is
callExactLowerKeepingFlag(gen, N) == [gen EXCEPT !.requireLower = N]

callExactLower(gen, N) ==
  [gen EXCEPT !.withLower = FALSE, !.requireLower = N]

callExactUpper(gen, N) ==
  [gen EXCEPT !.withUpper = FALSE, !.requireUpper = N]

callExactDigits(gen, N) ==
  [gen EXCEPT !.withDigits = FALSE, !.requireDigits = N]

callExactSymbols(gen, N) ==
  [gen EXCEPT !.withSymbols = FALSE, !.requireSymbols = N]

\* -------------------------------------------------------------- actions
Init ==
  /\ g = NewGenerator
  /\ pc = "ready"
  /\ generated = 0
  /\ length = 0
  /\ pass = << >>
  /\ err = ErrNil
  /\ randFailed = FALSE
  /\ pool = NotBuilt
  /\ drew = FALSE
  /\ runePass = << >>
  /\ picks = << >>

\* a configuration method returns the generator, nothing else
configured ==
  /\ generated' = 0
  /\ UNCHANGED << pc, length, pass, err, randFailed, pool, drew,
                  runePass, picks >>

NoAmbiguousCharacters ==
  /\ pc = "ready"
  /\ g' = callNoAmbiguousCharacters(g)
  /\ configured

WithLower ==
  /\ pc = "ready"
  /\ g' = callWithLower(g)
  /\ configured

WithUpper ==
  /\ pc = "ready"
  /\ g' = callWithUpper(g)
  /\ configured

WithDigits ==
  /\ pc = "ready"
  /\ g' = callWithDigits(g)
  /\ configured

WithSymbols ==
  /\ pc = "ready"
  /\ g' = callWithSymbols(g)
  /\ configured

RequireLower(N) ==
  /\ pc = "ready"
  /\ g' = callRequireLower(g, N)
  /\ configured

RequireUpper(N) ==
  /\ pc = "ready"
  /\ g' = callRequireUpper(g, N)
  /\ configured

RequireDigits(N) ==
  /\ pc = "ready"
  /\ g' = callRequireDigits(g, N)
  /\ configured

RequireSymbols(N) ==
  /\ pc = "ready"
  /\ g' = callRequireSymbols(g, N)
  /\ configured

ExactLower(N) ==
  /\ pc = "ready"
  /\ g' = callExactLower(g, N)
  /\ configured

ExactUpper(N) ==
  /\ pc = "ready"
  /\ g' = callExactUpper(g, N)
  /\ configured

ExactDigits(N) ==
  /\ pc = "ready"
  /\ g' = callExactDigits(g, N)
  /\ configured

ExactSymbols(N) ==
  /\ pc = "ready"
  /\ g' = callExactSymbols(g, N)
  /\ configured

\* Generate consuming the required count of the lower-case class
GenerateConsuming ==
  /\ pc = "ready"
  /\ generated < MaxGenerate
  /\ \E len \in Lengths :
       \E res \in generate(g, len) :
         /\ length' = len
         /\ pass' = res.pass
         /\ err' = res.err
         /\ randFailed' = (res.panic \/ res.err = ErrRandReader)
         /\ pc' = IF res.panic THEN "panicked" ELSE "returned"
         /\ pool' = res.pool
         /\ drew' = res.drew
         /\ g' = IF res.err = ErrNil /\ ~res.panic
                   THEN [g EXCEPT !.requireLower = 0]
                   ELSE g
  /\ generated' = generated + 1
  /\ UNCHANGED << runePass, picks >>

Generate ==
  /\ pc = "ready"
  /\ generated < MaxGenerate
  /\ \E len \in Lengths :
       \E res \in generate(g, len) :
         /\ length' = len
         /\ pass' = res.pass
         /\ err' = res.err
         /\ randFailed' = (res.panic \/ res.err = ErrRandReader)
         /\ pc' = IF res.panic THEN "panicked" ELSE "returned"
         /\ pool' = res.pool
         /\ drew' = res.drew
  /\ generated' = generated + 1
  /\ UNCHANGED << g, runePass, picks >>

\* the caller checks err, uses pass and drops both
UseResult ==
  /\ pc = "returned"
  /\ pc' = "ready"
  /\ length' = 0
  /\ pass' = << >>
  /\ err' = ErrNil
  /\ randFailed' = FALSE
  /\ pool' = NotBuilt
  /\ drew' = FALSE
  /\ UNCHANGED << g, generated, runePass, picks >>

Next ==
  \/ NoAmbiguousCharacters
  \/ WithLower
  \/ WithUpper
  \/ WithDigits
  \/ WithSymbols
  \/ \E N \in Counts : RequireLower(N)
  \/ \E N \in Counts : RequireUpper(N)
  \/ \E N \in Counts : RequireDigits(N)
  \/ \E N \in Counts : RequireSymbols(N)
  \/ \E N \in Counts : ExactLower(N)
  \/ \E N \in Counts : ExactUpper(N)
  \/ \E N \in Counts : ExactDigits(N)
  \/ \E N \in Counts : ExactSymbols(N)
  \/ Generate
  \/ UseResult

Spec == Init /\ [][Next]_vars

\* the same calls with every int the bounds allow as N
NextAnyCount ==
  \/ NoAmbiguousCharacters
  \/ WithLower
  \/ WithUpper
  \/ WithDigits
  \/ WithSymbols
  \/ \E N \in AnyCounts : RequireLower(N)
  \/ \E N \in AnyCounts : RequireUpper(N)
  \/ \E N \in AnyCounts : RequireDigits(N)
  \/ \E N \in AnyCounts : RequireSymbols(N)
  \/ \E N \in AnyCounts : ExactLower(N)
  \/ \E N \in AnyCounts : ExactUpper(N)
  \/ \E N \in AnyCounts : ExactDigits(N)
  \/ \E N \in AnyCounts : ExactSymbols(N)
  \/ Generate
  \/ UseResult

SpecAnyCount == Init /\ [][NextAnyCount]_vars

\* ------------------------------------------------- shuffle on its own
\* one character of each class; every sequence over the alphabets is the
\* buffer of a Generate call that fills it from all four classes
ShuffleRunes == { LowerLetters[1], UpperLetters[1], Digits[1], Symbols[1] }

InitShuffle ==
  /\ g = NewGenerator
  /\ pc = "ready"
  /\ generated = 0
  /\ length = 0
  /\ pass = << >>
  /\ err = ErrNil
  /\ randFailed = FALSE
  /\ pool = NotBuilt
  /\ drew = FALSE
  /\ \E n \in 0..MaxShuffle : runePass \in [1..n -> ShuffleRunes]
  /\ picks = << >>

\* runePass := []rune(pass); shuffle(runePass); pass = string(runePass)
Shuffle ==
  /\ pc = "ready"
  /\ \E sh \in shuffle(runePass) :
       /\ pass' = IF sh.panic THEN << >> ELSE sh.vals
       /\ picks' = sh.picks
       /\ randFailed' = sh.panic
       /\ pc' = IF sh.panic THEN "panicked" ELSE "returned"
  /\ drew' = (Len(runePass) > 0)
  /\ UNCHANGED << g, generated, length, err, pool, runePass >>

NextShuffle == Shuffle

SpecShuffle == InitShuffle /\ [][NextShuffle]_vars

TypeOK ==
  /\ pc \in {"ready", "returned", "panicked"}
  /\ generated \in 0..MaxGenerate
  /\ length \in Lengths
  /\ err \in {ErrNil, ErrExceedsTotalLength, ErrNoCharactersSpecified, ErrRandReader}
  /\ randFailed \in BOOLEAN
  /\ pool.built \in BOOLEAN
  /\ drew \in BOOLEAN

\* ------------------------------------------------------ claim vocabulary
Classes == {"lower", "upper", "digits", "symbols"}

\* the inclusion flag of class c
withClass(gen, c) ==
  CASE c = "lower"   -> gen.withLower
    [] c = "upper"   -> gen.withUpper
    [] c = "digits"  -> gen.withDigits
    [] c = "symbols" -> gen.withSymbols

\* the required count of class c
requireClass(gen, c) ==
  CASE c = "lower"   -> gen.requireLower
    [] c = "upper"   -> gen.requireUpper
    [] c = "digits"  -> gen.requireDigits
    [] c = "symbols" -> gen.requireSymbols

\* the full alphabet of class c
fullAlphabet(c) ==
  CASE c = "lower"   -> LowerLetters
    [] c = "upper"   -> UpperLetters
    [] c = "digits"  -> Digits
    [] c = "symbols" -> Symbols

Range(s) == { s[i] : i \in 1..Len(s) }

\* number of characters of string s taken from alphabet a
countIn(s, a) == Cardinality({ i \in 1..Len(s) : s[i] \in Range(a) })

sumRequired(gen) ==
  gen.requireLower + gen.requireUpper + gen.requireDigits + gen.requireSymbols

anyEnabled(gen) == \E c \in Classes : withClass(gen, c)

\* i, l, o, I, L, O, 0, 1: the characters the NoAmbig alphabets leave out
Ambiguous ==
  (Range(LowerLetters) \ Range(LowerLettersNoAmbig))
  \cup (Range(UpperLetters) \ Range(UpperLettersNoAmbig))
  \cup (Range(Digits) \ Range(DigitsNoAmbig))
  \cup (Range(Symbols) \ Range(SymbolsNoAmbig))

\* a Generate call has been made and the caller has not moved on
called == pc # "ready"

\* the Generate call panicked
crashed == pc = "panicked"

\* the Generate call returned
returned == pc = "returned"

\* a Generate call has returned a password and a nil error
succeeded == returned /\ err = ErrNil

\* ---------------------------------------------------------------- claims

\* C1: with at least one class enabled, non-negative required counts and
\* length >= the sum of the required counts, Generate(length) returns a nil
\* error and a string of exactly length characters (as long as rand.Reader
\* does not fail).
C1_Length ==
  ( /\ called
    /\ anyEnabled(g)
    /\ \A c \in Classes : requireClass(g, c) >= 0
    /\ length >= sumRequired(g)
    /\ ~randFailed )
  => ( /\ ~crashed
       /\ err = ErrNil
       /\ Len(pass) = length )

\* one character seeded and one filled
C1_Witness ==
  /\ succeeded
  /\ g.withLower /\ g.requireLower = 1
  /\ g.withDigits
  /\ sumRequired(g) = 1
  /\ length = 2
  /\ Len(pass) = 2

\* C2: whenever the sum of the required counts exceeds the (non-negative)
\* length, Generate fails with ErrExceedsTotalLength and an empty string,
\* whatever classes are enabled, none included.
C2_ExceedsAlways ==
  ( /\ called
    /\ length >= 0
    /\ sumRequired(g) > length )
  => ( /\ ~crashed
       /\ err = ErrExceedsTotalLength
       /\ pass = << >> )

\* C3: Generate (of a non-negative length) fails with
\* ErrNoCharactersSpecified only when (a) no class
\* is enabled and every required count is zero, or (b) length exceeds the
\* sum of the required counts and the fill pool is empty.
C3_NoCharactersOnly ==
  ( /\ returned
    /\ length >= 0
    /\ err = ErrNoCharactersSpecified )
  => ( \/ ( /\ ~anyEnabled(g)
            /\ \A c \in Classes : requireClass(g, c) = 0 )
       \/ ( /\ length > sumRequired(g)
            /\ Len(values(g)) = 0 ) )

\* C4: a freshly constructed generator fails Generate(length) with
\* ErrNoCharactersSpecified and an empty string for every length, also a
\* length below the sum of the required counts: the guard comes first.
C4_FreshFails ==
  ( /\ called
    /\ g = NewGenerator )
  => ( /\ ~crashed
       /\ err = ErrNoCharactersSpecified
       /\ pass = << >> )

\* the fresh generator asked for a length below its sum of required counts
C4_Witness ==
  /\ returned
  /\ g = NewGenerator
  /\ length < sumRequired(g)
  /\ err = ErrNoCharactersSpecified

\* C5: when a class has its flag cleared and required count n while another
\* class is enabled, a successful Generate returns exactly n characters of
\* that class.
C5_Exact ==
  ( /\ succeeded
    /\ anyEnabled(g) )
  => \A c \in Classes :
       ~withClass(g, c)
         => countIn(pass, fullAlphabet(c)) = requireClass(g, c)

\* ExactLower(1) with another class enabled and one slot filled
C5_Witness ==
  /\ succeeded
  /\ ~g.withLower /\ g.requireLower = 1
  /\ anyEnabled(g)
  /\ sumRequired(g) = 1
  /\ length = 2
  /\ countIn(pass, LowerLetters) = 1

\* C6: when a class has its flag set and required count n, a successful
\* Generate returns at least n characters of that class's full alphabet.
C6_AtLeast ==
  succeeded
  => \A c \in Classes :
       withClass(g, c)
         => countIn(pass, fullAlphabet(c)) >= requireClass(g, c)

\* RequireUpper(1) among other enabled classes, one slot filled from another
\* class
C6_Witness ==
  /\ succeeded
  /\ g.withUpper /\ g.requireUpper = 1
  /\ g.withLower /\ g.withDigits
  /\ length = 2
  /\ countIn(pass, UpperLetters) = 1

\* C7: every character of a successfully generated string belongs to the
\* full alphabet of a class that is enabled or has a required count > 0.
C7_Membership ==
  succeeded
  => \A i \in 1..Len(pass) :
       \E c \in Classes :
         /\ withClass(g, c) \/ requireClass(g, c) > 0
         /\ pass[i] \in Range(fullAlphabet(c))

\* lower required, digits enabled, symbols neither enabled nor required
C7_Witness ==
  /\ succeeded
  /\ g.requireLower = 1 /\ g.withDigits
  /\ ~g.withSymbols /\ g.requireSymbols = 0
  /\ length = 2
  /\ countIn(pass, Digits) = 1
  /\ countIn(pass, Symbols) = 0

\* C8: once NoAmbiguousCharacters has been called, no successfully generated
\* password contains an ambiguous character.
C8_NoAmbiguous ==
  ( /\ succeeded
    /\ g.lowerLetters = LowerLettersNoAmbig
    /\ g.upperLetters = UpperLettersNoAmbig
    /\ g.digits = DigitsNoAmbig
    /\ g.symbols = SymbolsNoAmbig )
  => \A i \in 1..Len(pass) : pass[i] \notin Ambiguous

C10_RandFailureReturned ==
  ( /\ called
    /\ randFailed )
  => ( /\ ~crashed
       /\ err # ErrNil
       /\ pass = << >> )

\* the inclusion flag and the required count of class c
classFields(gen, c) == << withClass(gen, c), requireClass(gen, c) >>

\* the step leaves class c as the call leaves it on a fresh generator
asOnFresh(c, fresh) == classFields(g', c) = classFields(fresh, c)

\* the step leaves every class but c as it was
othersKept(c) ==
  \A d \in Classes \ {c} : classFields(g', d) = classFields(g, d)

\* C11 as claimed: every configuration call leaves the flag and the count of
\* its class as the same call leaves them on a fresh generator, so that the
\* last call addressed to a class decides both (WithX included: merely
\* enabled, required count 0).
C11_LastCallWins ==
  [][ /\ WithLower => asOnFresh("lower", callWithLower(NewGenerator))
      /\ WithUpper => asOnFresh("upper", callWithUpper(NewGenerator))
      /\ WithDigits => asOnFresh("digits", callWithDigits(NewGenerator))
      /\ WithSymbols => asOnFresh("symbols", callWithSymbols(NewGenerator))
      /\ \A N \in Counts :
           /\ RequireLower(N)
                => asOnFresh("lower", callRequireLower(NewGenerator, N))
           /\ RequireUpper(N)
                => asOnFresh("upper", callRequireUpper(NewGenerator, N))
           /\ RequireDigits(N)
                => asOnFresh("digits", callRequireDigits(NewGenerator, N))
           /\ RequireSymbols(N)
                => asOnFresh("symbols", callRequireSymbols(NewGenerator, N))
           /\ ExactLower(N)
                => asOnFresh("lower", callExactLower(NewGenerator, N))
           /\ ExactUpper(N)
                => asOnFresh("upper", callExactUpper(NewGenerator, N))
           /\ ExactDigits(N)
                => asOnFresh("digits", callExactDigits(NewGenerator, N))
           /\ ExactSymbols(N)
                => asOnFresh("symbols", callExactSymbols(NewGenerator, N))
    ]_vars

\* C11 amended: RequireX(N) and ExactX(N) leave the flag and the count of
\* their class as on a fresh generator (flag set resp. cleared, count N, no
\* accumulation); WithX sets the flag and keeps the count the class had; no
\* call touches the flag or the count of another class.  So the flag is that
\* of the last call to the class and the count is the N of the last RequireX
\* or ExactX call to it.  (Only configuration calls leave generated at 0.)
C11_FieldOverwrite ==
  [][ generated' = 0 =>
      /\ WithLower
           => /\ g'.withLower /\ g'.requireLower = g.requireLower
              /\ othersKept("lower")
      /\ WithUpper
           => /\ g'.withUpper /\ g'.requireUpper = g.requireUpper
              /\ othersKept("upper")
      /\ WithDigits
           => /\ g'.withDigits /\ g'.requireDigits = g.requireDigits
              /\ othersKept("digits")
      /\ WithSymbols
           => /\ g'.withSymbols /\ g'.requireSymbols = g.requireSymbols
              /\ othersKept("symbols")
      /\ \A N \in Counts :
           /\ RequireLower(N)
                => /\ asOnFresh("lower", callRequireLower(NewGenerator, N))
                   /\ othersKept("lower")
           /\ RequireUpper(N)
                => /\ asOnFresh("upper", callRequireUpper(NewGenerator, N))
                   /\ othersKept("upper")
           /\ RequireDigits(N)
                => /\ asOnFresh("digits", callRequireDigits(NewGenerator, N))
                   /\ othersKept("digits")
           /\ RequireSymbols(N)
                => /\ asOnFresh("symbols", callRequireSymbols(NewGenerator, N))
                   /\ othersKept("symbols")
           /\ ExactLower(N)
                => /\ asOnFresh("lower", callExactLower(NewGenerator, N))
                   /\ othersKept("lower")
           /\ ExactUpper(N)
                => /\ asOnFresh("upper", callExactUpper(NewGenerator, N))
                   /\ othersKept("upper")
           /\ ExactDigits(N)
                => /\ asOnFresh("digits", callExactDigits(NewGenerator, N))
                   /\ othersKept("digits")
           /\ ExactSymbols(N)
                => /\ asOnFresh("symbols", callExactSymbols(NewGenerator, N))
                   /\ othersKept("symbols")
    ]_vars

\* a class left by an ExactX call after calls to every class: flag cleared,
\* count 2, beside a required and a merely enabled class
C11_Witness ==
  /\ pc = "ready"
  /\ ~g.withLower /\ g.requireLower = 2
  /\ g.withUpper /\ g.requireUpper = 1
  /\ g.withDigits /\ g.requireDigits = 0
  /\ g.withSymbols /\ g.requireSymbols = 2

\* number of occurrences of character ch in s
occurrences(s, ch) == Cardinality({ i \in 1..Len(s) : s[i] = ch })

\* the arrangements shuffle can give to n positions
arrangements(n) ==
  { sh.vals : sh \in { x \in shuffle([i \in 1..n |-> i]) : ~x.panic } }

\* C12: shuffle permutes: the shuffled string has the characters of the
\* buffer with their multiplicities, every randIndex lies within the prefix
\* that remains (0 <= randIndex < n), and every one of the n! arrangements
\* of the n positions is a possible result.
C12_ShufflePermutes ==
  /\ pc = "returned"
       => /\ Len(pass) = Len(runePass)
          /\ \A ch \in ShuffleRunes :
               occurrences(pass, ch) = occurrences(runePass, ch)
          /\ Len(picks) = Len(runePass)
          /\ \A i \in 1..Len(picks) :
               picks[i] >= 0 /\ picks[i] < Len(runePass) - i + 1
  /\ arrangements(Len(runePass)) = Permutations(1..Len(runePass))

\* three runes, two of them equal, shuffled into another order
C12_Witness ==
  /\ pc = "returned"
  /\ Len(runePass) = 3
  /\ runePass[1] = runePass[2]
  /\ runePass[2] # runePass[3]
  /\ pass # runePass
  /\ picks = << 0, 0, 0 >>

\* the alphabet of class c the generator is configured with
configuredAlphabet(gen, c) ==
  CASE c = "lower"   -> gen.lowerLetters
    [] c = "upper"   -> gen.upperLetters
    [] c = "digits"  -> gen.digits
    [] c = "symbols" -> gen.symbols

\* NoAmbiguousCharacters has been called
noAmbiguity(gen) ==
  /\ gen.lowerLetters = LowerLettersNoAmbig
  /\ gen.upperLetters = UpperLettersNoAmbig
  /\ gen.digits = DigitsNoAmbig
  /\ gen.symbols = SymbolsNoAmbig

\* the buffers the seeding loops can leave
seededBuffers(gen) == { s.buffer : s \in { x \in seed(gen) : x.err = ErrNil } }

C15_NeverLonger ==
  succeeded => Len(pass) = length

====
